---- MODULE Spec2Model ----
(***************************************************************************)
(* Cert-Print-Agent: lot token parsing (JSONExtractLotAgent.parse_lot),    *)
(* extraction results (JSONExtractLotAgent.process_json,                   *)
(* ExtractLotAgent.process_certificate), ERP resolution and composition    *)
(* of the annotation (ERPAgent), and the two orchestrators: main.py takes  *)
(* one certificate through all stages at a time, main_v2.py runs each      *)
(* stage over the whole batch.                                             *)
(*                                                                         *)
(* Python strings are modelled as sequences of one-character strings, so   *)
(* that split, isdigit, int, str, strip and lstrip are computed character  *)
(* by character.  Python None is the empty option <<>>, a present value v  *)
(* is the option <<v>>.                                                    *)
(***************************************************************************)
EXTENDS Integers, Sequences, FiniteSets, TLC

\* ------------------------------------------------------------------------
\* Bounds of the model
\* ------------------------------------------------------------------------
\* longest run of digits in one part of a generated token
MaxDigits == 6
\* largest unit count n written after the slash as str(n)
MaxSuffix == 12
\* number of certificates handled in one run
MaxCerts == 2
\* longest list of results handed to the composer on its own
MaxResults == 3

\* ------------------------------------------------------------------------
\* Python string primitives
\* ------------------------------------------------------------------------
None == <<>>
Some(v) == <<v>>

DigitChars == {"0", "1", "2", "3", "4", "5", "6", "7", "8", "9"}
DigitSeq == <<"0", "1", "2", "3", "4", "5", "6", "7", "8", "9">>
SpaceChars == {" "}

\* c in s
Contains(s, c) == \E k \in 1..Len(s) : s[k] = c

\* str.isdigit(): non-empty and every character is a digit
isdigit(s) == Len(s) > 0 /\ \A k \in 1..Len(s) : s[k] \in DigitChars

\* value of one digit character
DigitVal(c) == CHOOSE d \in 0..9 : DigitSeq[d + 1] = c

\* int(s) for a string of digits (leading zeros are dropped by the value)
RECURSIVE int(_)
int(s) == IF Len(s) = 0 THEN 0
          ELSE 10 * int(SubSeq(s, 1, Len(s) - 1)) + DigitVal(s[Len(s)])

\* str(n) for a natural number
RECURSIVE StrNat(_)
StrNat(n) == IF n < 10 THEN <<DigitSeq[n + 1]>>
             ELSE StrNat(n \div 10) \o <<DigitSeq[(n % 10) + 1]>>

\* str(n) for an integer
str(n) == IF n < 0 THEN <<"-">> \o StrNat(0 - n) ELSE StrNat(n)

\* s.split(sep) for a one-character separator: always at least one part,
\* empty parts are kept
RECURSIVE split(_, _)
split(s, sep) ==
    IF ~Contains(s, sep) THEN <<s>>
    ELSE LET k == CHOOSE j \in 1..Len(s) :
                      s[j] = sep /\ \A m \in 1..(j - 1) : s[m] # sep
         IN <<SubSeq(s, 1, k - 1)>> \o split(SubSeq(s, k + 1, Len(s)), sep)

\* s.lstrip(c)
RECURSIVE lstrip(_, _)
lstrip(s, c) == IF Len(s) > 0 /\ s[1] = c THEN lstrip(Tail(s), c) ELSE s

\* s.strip(): whitespace removed at both ends
RECURSIVE strip(_)
strip(s) == IF Len(s) > 0 /\ s[1] \in SpaceChars THEN strip(Tail(s))
            ELSE IF Len(s) > 0 /\ s[Len(s)] \in SpaceChars
                 THEN strip(SubSeq(s, 1, Len(s) - 1))
                 ELSE s

\* s.replace(".0", ""): every non-overlapping occurrence, left to right
RECURSIVE replace_dot0(_)
replace_dot0(s) ==
    IF Len(s) < 2 THEN s
    ELSE IF s[1] = "." /\ s[2] = "0" THEN replace_dot0(SubSeq(s, 3, Len(s)))
    ELSE <<s[1]>> \o replace_dot0(Tail(s))

\* str(v) of a spreadsheet cell: a string, an integer or an integral float
PyStr(cell) ==
    CASE cell.kind = "str" -> cell.s
      [] cell.kind = "int" -> str(cell.n)
      [] cell.kind = "float" -> str(cell.n) \o <<".", "0">>

\* d.get(key, default) on a dictionary with string keys
get(d, key, default) == IF key \in DOMAIN d THEN d[key] ELSE default

Min(S) == CHOOSE x \in S : \A y \in S : x <= y

\* ------------------------------------------------------------------------
\* JSONExtractLotAgent.parse_lot
\* ------------------------------------------------------------------------
\* the guard of the dash rule: "-" in raw and all(p.isdigit() for p in
\* raw.split("-") if p)
dash_rule(raw) ==
    /\ Contains(raw, "-")
    /\ \A k \in 1..Len(split(raw, "-")) :
           split(raw, "-")[k] # <<>> => isdigit(split(raw, "-")[k])

\* the guard of the slash rule
slash_rule(raw) ==
    /\ Contains(raw, "/")
    /\ Len(split(raw, "/")) = 2
    /\ isdigit(split(raw, "/")[1])
    /\ isdigit(split(raw, "/")[2])

\* explicit_multi counting only the non-empty parts
explicit_multi_count_nonempty(raw) ==
    LET parts == split(raw, "-")
    IN [type |-> "explicit_multi",
        base_lot |-> None,
        count |-> Cardinality({k \in 1..Len(parts) : parts[k] # <<>>}),
        expanded_lots |-> parts,
        annotation_hint |-> None]

explicit_multi(raw) ==
    LET parts == split(raw, "-")
    IN [type |-> "explicit_multi",
        base_lot |-> None,
        count |-> Len(parts),
        expanded_lots |-> parts,
        annotation_hint |-> None]

\* implicit_multi with the hint "+" + str(cnt)
implicit_multi_hint_cnt(raw) ==
    LET parts == split(raw, "/")
        base == parts[1]
        cnt == int(parts[2])
    IN [type |-> "implicit_multi",
        base_lot |-> Some(base),
        count |-> cnt,
        expanded_lots |-> <<base>>,
        annotation_hint |-> Some(<<"+">> \o str(cnt))]

implicit_multi(raw) ==
    LET parts == split(raw, "/")
        base == parts[1]
        cnt == int(parts[2])
    IN [type |-> "implicit_multi",
        base_lot |-> Some(base),
        count |-> cnt,
        expanded_lots |-> <<base>>,
        annotation_hint |-> Some(<<"+">> \o str(cnt - 1))]

single(raw) ==
    [type |-> "single",
     base_lot |-> Some(raw),
     count |-> 1,
     expanded_lots |-> <<raw>>,
     annotation_hint |-> None]

parse_lot(raw) ==
    IF dash_rule(raw) THEN explicit_multi(raw)
    ELSE IF slash_rule(raw) THEN implicit_multi(raw)
    ELSE single(raw)

\* ------------------------------------------------------------------------
\* State
\* ------------------------------------------------------------------------
VARIABLES
    raw,               \* the token handed to parse_lot
    lot_structured,    \* option: the descriptor parse_lot returned
    agent,             \* "json" (JSONExtractLotAgent) or "ocr" (ExtractLotAgent)
    excel,             \* the workbook: sheet name -> sheet as stored
    excel_cache,       \* ERPAgent.excel_cache: sheet name -> loaded table
    reads,             \* sheet name -> number of pd.read_excel calls
    extraction_result, \* option: the extraction result of the certificate
    lot_results,       \* results of search_multiple_lots so far
    searched,          \* sheets visited by the latest search_lot, in order
    lookup_log,        \* every search_lot_in_sheet call on a loaded sheet
    cert_no,           \* number of certificates taken up so far
    pc,                \* position of the orchestrator
    inbox,             \* number of certificate files of the batch
    extraction_results, \* main_v2: the list JSONExtractLotAgent.run returned
    current,           \* number of the certificate the ERP agent works on
    cert_state,        \* certificate number -> its state
    erp_results,       \* the results of ERPAgent.process_certificate so far
    print_result,      \* option: what the print agent returned last
    print_no,          \* number of ERP results handed to the print agent
    failures,          \* the failures reported, as [cert, stage]
    print_log,         \* what the print agent did to the files and the printer
    stats,             \* CertPrintOrchestrator.stats of main.py
    threads            \* the threads inside load_excel_sheet: position, table

vars == <<raw, lot_structured, agent, excel, excel_cache, reads,
          extraction_result, lot_results, searched, lookup_log, cert_no, pc,
          inbox, extraction_results, current, cert_state, erp_results,
          print_result, print_no, failures, print_log, stats, threads>>

erp_vars == <<agent, excel, excel_cache, reads, extraction_result,
              lot_results, searched, lookup_log, cert_no, pc, inbox,
              extraction_results, current, cert_state, erp_results,
              print_result, print_no, failures, print_log, stats, threads>>

\* ------------------------------------------------------------------------
\* The workbook
\* ------------------------------------------------------------------------
\* ERPAgent.sheets, in priority order
sheets == <<"2026", "2025", "2024">>
SheetNames == {sheets[k] : k \in 1..Len(sheets)}

\* ERPAgent.column_names
column_names == [cert_lot |-> "NO", internal_lot |-> "Lot Num.",
                 supplier |-> "Supplier"]

StrCell(s) == [kind |-> "str", s |-> s]
IntCell(n) == [kind |-> "int", n |-> n]
FloatCell(n) == [kind |-> "float", n |-> n]

Acme == <<"A", "c", "m", "e">>
Beta == <<"B", "e", "t", "a">>
Delta == <<"D", "e", "l", "t", "a">>

Row(no, sup, lot) == [NO |-> no, Supplier |-> StrCell(sup), LotNum |-> lot]

AllColumns == {"NO", "Lot Num.", "Supplier"}

\* a sheet keyed by 139912 (stored as a float) and 139913
SheetA ==
    [readable |-> TRUE, columns |-> AllColumns,
     rows |-> <<Row(FloatCell(139912), Acme, IntCell(2601)),
                Row(IntCell(139913), Acme, IntCell(2603))>>]

\* a sheet with a zero-padded key before the plain key, and a padded cell
SheetB ==
    [readable |-> TRUE, columns |-> AllColumns,
     rows |-> <<Row(StrCell(<<"0">> \o str(139912)), Beta, IntCell(2501)),
                Row(IntCell(139912), Delta, IntCell(2502)),
                Row(StrCell(<<" ">> \o str(139865) \o <<" ">>), Delta,
                    StrCell(str(139865)))>>]

\* a sheet without the supplier column
SheetNoSupplier ==
    [readable |-> TRUE, columns |-> {"NO", "Lot Num."},
     rows |-> <<Row(IntCell(139912), Acme, IntCell(2401))>>]

\* a sheet pd.read_excel cannot read
SheetUnreadable == [readable |-> FALSE, columns |-> {}, rows |-> <<>>]

SheetOptions == {SheetA, SheetB, SheetNoSupplier, SheetUnreadable}

Workbooks == [SheetNames -> SheetOptions]

\* ------------------------------------------------------------------------
\* ERPAgent.load_excel_sheet
\* ------------------------------------------------------------------------
\* line 57: astype(str).str.strip().str.replace('.0', '', regex=False)
normalize_key(cell) == replace_dot0(strip(PyStr(cell)))

\* load_excel_sheet without the check of the required columns: a readable
\* sheet is always loaded
load_excel_sheet_no_column_check(cache, sheet_name) ==
    IF sheet_name \in DOMAIN cache
    THEN [df |-> Some(cache[sheet_name]), cache |-> cache, read |-> FALSE]
    ELSE LET sh == excel[sheet_name]
             df == [rows |-> [k \in 1..Len(sh.rows) |->
                        [sh.rows[k] EXCEPT !.NO = normalize_key(@)]]]
         IN IF ~sh.readable
            THEN [df |-> None, cache |-> cache, read |-> TRUE]
            ELSE [df |-> Some(df), cache |-> cache @@ (sheet_name :> df),
                  read |-> TRUE]

\* returns the table (or None), the cache afterwards and whether
\* pd.read_excel was called
load_excel_sheet(cache, sheet_name) ==
    IF sheet_name \in DOMAIN cache
    THEN [df |-> Some(cache[sheet_name]), cache |-> cache, read |-> FALSE]
    ELSE LET sh == excel[sheet_name]
             required == {column_names.cert_lot, column_names.internal_lot,
                          column_names.supplier}
             df == [rows |-> [k \in 1..Len(sh.rows) |->
                        [sh.rows[k] EXCEPT !.NO = normalize_key(@)]]]
         IN IF ~sh.readable
            THEN [df |-> None, cache |-> cache, read |-> TRUE]
            ELSE IF \E col \in required : col \notin sh.columns
            THEN [df |-> None, cache |-> cache, read |-> TRUE]
            ELSE [df |-> Some(df), cache |-> cache @@ (sheet_name :> df),
                  read |-> TRUE]

\* ------------------------------------------------------------------------
\* ERPAgent.search_lot_in_sheet
\* ------------------------------------------------------------------------
\* find_row without the second pass over keys stripped of leading zeros
find_row_exact_only(df, cert_lot_number) ==
    LET lot_str == strip(cert_lot_number)
        exact == {k \in 1..Len(df.rows) : df.rows[k].NO = lot_str}
    IN IF exact # {} THEN Some(Min(exact)) ELSE None

\* the row of df the lookup returns (option of a row number)
find_row(df, cert_lot_number) ==
    LET lot_str == strip(cert_lot_number)
        exact == {k \in 1..Len(df.rows) : df.rows[k].NO = lot_str}
        nozero == {k \in 1..Len(df.rows) :
                      lstrip(df.rows[k].NO, "0") = lstrip(lot_str, "0")}
    IN IF exact # {} THEN Some(Min(exact))
       ELSE IF nozero # {} THEN Some(Min(nozero))
       ELSE None

\* a lookup that reads the sheet again although it is in the cache
search_lot_in_sheet_reload(cache, cert_lot_number, sheet_name) ==
    LET ld == load_excel_sheet([s \in {} |-> {}], sheet_name)
    IN [row |-> IF ld.df = None THEN None
                ELSE find_row(ld.df[1], cert_lot_number),
        loaded |-> ld.df # None,
        cache |-> ld.cache @@ cache,
        read |-> ld.read]

\* lines 67-91: the table of the sheet, then the row of the lot
search_lot_in_sheet(cache, cert_lot_number, sheet_name) ==
    LET ld == load_excel_sheet(cache, sheet_name)
    IN [row |-> IF ld.df = None THEN None
                ELSE find_row(ld.df[1], cert_lot_number),
        loaded |-> ld.df # None,
        cache |-> ld.cache,
        read |-> ld.read]

\* ------------------------------------------------------------------------
\* ERPAgent.search_lot
\* ------------------------------------------------------------------------
not_found(cert_lot_number) ==
    [cert_lot |-> cert_lot_number, found |-> FALSE, supplier |-> None,
     internal_lot |-> None, sheet_found |-> None]

\* the loop over self.sheets from position k on; trace lists the calls of
\* search_lot_in_sheet made so far
RECURSIVE search_sheets(_, _, _, _)
search_sheets(k, cert_lot_number, cache, trace) ==
    IF k > Len(sheets)
    THEN [result |-> not_found(cert_lot_number), cache |-> cache,
          trace |-> trace]
    ELSE LET sheet == sheets[k]
             r == search_lot_in_sheet(cache, cert_lot_number, sheet)
             t == Append(trace, [sheet |-> sheet, read |-> r.read,
                                 loaded |-> r.loaded, row |-> r.row])
         IN IF r.row # None
            THEN LET row == r.cache[sheet].rows[r.row[1]]
                 IN [result |->
                        [cert_lot |-> cert_lot_number,
                         found |-> TRUE,
                         supplier |-> Some(PyStr(row.Supplier)),
                         internal_lot |-> Some(PyStr(row.LotNum)),
                         sheet_found |-> Some(sheet)],
                     cache |-> r.cache, trace |-> t]
            ELSE search_sheets(k + 1, cert_lot_number, r.cache, t)

\* the loop over self.sheets without the return inside it: every sheet is
\* searched and the last match is kept
RECURSIVE search_sheets_no_return(_, _, _, _, _)
search_sheets_no_return(k, cert_lot_number, cache, trace, result) ==
    IF k > Len(sheets)
    THEN [result |-> result, cache |-> cache, trace |-> trace]
    ELSE LET sheet == sheets[k]
             r == search_lot_in_sheet(cache, cert_lot_number, sheet)
             t == Append(trace, [sheet |-> sheet, read |-> r.read,
                                 loaded |-> r.loaded, row |-> r.row])
             res == IF r.row = None THEN result
                    ELSE LET row == r.cache[sheet].rows[r.row[1]]
                         IN [cert_lot |-> cert_lot_number,
                             found |-> TRUE,
                             supplier |-> Some(PyStr(row.Supplier)),
                             internal_lot |-> Some(PyStr(row.LotNum)),
                             sheet_found |-> Some(sheet)]
         IN search_sheets_no_return(k + 1, cert_lot_number, r.cache, t, res)

search_lot_no_return(cert_lot_number, cache) ==
    search_sheets_no_return(1, cert_lot_number, cache, <<>>,
                            not_found(cert_lot_number))

search_lot(cert_lot_number, cache) ==
    search_sheets(1, cert_lot_number, cache, <<>>)

\* ------------------------------------------------------------------------
\* ERPAgent.generate_annotation_text
\* ------------------------------------------------------------------------
\* the text returned for lots that are not registered (line 151); a
\* character outside ASCII is written as its code point
UNREGISTERED ==
    <<"U+063A", "U+064A", "U+0631", " ", "U+0645", "U+0633",
      "U+062C", "U+0644", " ", "U+0641", "U+064A", " ", "U+0627",
      "U+0644", "U+0646", "U+0638", "U+0627", "U+0645">>

\* sep.join(strs)
RECURSIVE join(_, _)
join(sep, strs) ==
    IF Len(strs) = 0 THEN <<>>
    ELSE IF Len(strs) = 1 THEN strs[1]
    ELSE strs[1] \o sep \o join(sep, Tail(strs))

\* truthiness of a string option: neither None nor ""
truthy(opt) == opt # None /\ opt[1] # <<>>

\* lines 167-169 without the test of line 167: every lot opens a group
add_to_group_always_new(supplier_groups, supplier, internal_lot) ==
    Append(supplier_groups, [supplier |-> supplier, lots |-> <<internal_lot>>])

\* lines 167-169: supplier_groups is the dictionary in insertion order, as a
\* sequence of [supplier, lots]
add_to_group(supplier_groups, supplier, internal_lot) ==
    LET known == {g \in 1..Len(supplier_groups) :
                     supplier_groups[g].supplier = supplier}
    IN IF known = {}
       THEN Append(supplier_groups,
                   [supplier |-> supplier, lots |-> <<internal_lot>>])
       ELSE [g \in 1..Len(supplier_groups) |->
                IF g \in known
                THEN [supplier_groups[g] EXCEPT
                         !.lots = Append(@, internal_lot)]
                ELSE supplier_groups[g]]

\* the loop of lines 162-171 from result k on
RECURSIVE group_results(_, _, _, _)
group_results(lot_results_, k, supplier_groups, not_found_lots) ==
    IF k > Len(lot_results_)
    THEN [supplier_groups |-> supplier_groups,
          not_found_lots |-> not_found_lots]
    ELSE LET result == lot_results_[k]
         IN IF result.found
            THEN group_results(lot_results_, k + 1,
                               add_to_group(supplier_groups,
                                            strip(result.supplier[1]),
                                            strip(result.internal_lot[1])),
                               not_found_lots)
            ELSE group_results(lot_results_, k + 1, supplier_groups,
                               Append(not_found_lots, result.cert_lot))

\* a segment that lists the lots of the group last first
only_group_part_reversed(g, annotation_hint) ==
    g.supplier \o <<" ", "-", " ", "L", "o", "t", " ">>
        \o join(<<" ", "-", " ", "L", "o", "t", " ", " ">>,
                [k \in 1..Len(g.lots) |-> g.lots[Len(g.lots) + 1 - k]])

\* the segment of one supplier group when it is the only group (177-190)
only_group_part(g, annotation_hint) ==
    IF Len(g.lots) = 1
    THEN LET lot_text == IF truthy(annotation_hint)
                         THEN g.lots[1] \o <<" ">> \o annotation_hint[1]
                         ELSE g.lots[1]
         IN g.supplier \o <<" ", "-", " ", "L", "o", "t", " ", " ">>
                \o lot_text
    ELSE g.supplier \o <<" ", "-", " ", "L", "o", "t", " ">>
             \o join(<<" ", "-", " ", "L", "o", "t", " ", " ">>, g.lots)

\* group_part with the text of a single lot (line 196) for every lot
group_part_two_spaces(g) ==
    g.supplier \o <<" ", "-", " ", "L", "o", "t", " ", " ">>
        \o join(<<" ", "-", " ", "L", "o", "t", " ", " ">>, g.lots)

\* the segment of one supplier group among several groups (194-199)
group_part(g) ==
    IF Len(g.lots) = 1
    THEN g.supplier \o <<" ", "-", " ", "L", "o", "t", " ", " ">>
             \o g.lots[1]
    ELSE g.supplier \o <<" ", "-", " ", "L", "o", "t", " ">>
             \o join(<<" ", "-", " ", "L", "o", "t", " ", " ">>, g.lots)

\* assemble with the segment of the lots that were not found put first
assemble_misses_first(supplier_parts, not_found_lots) ==
    LET parts ==
            IF Len(not_found_lots) > 0
            THEN <<join(<<" ", "-", " ">>, not_found_lots)
                       \o <<" ", "N", "/", "A">>>> \o supplier_parts
            ELSE supplier_parts
    IN IF Len(parts) > 1 THEN join(<<" ", "|", " ">>, parts)
       ELSE parts[1]

\* lines 201-205: the segment of the lots that were not found comes last,
\* and the segments are joined by " | "
assemble(supplier_parts, not_found_lots) ==
    LET parts ==
            IF Len(not_found_lots) > 0
            THEN Append(supplier_parts,
                        join(<<" ", "-", " ">>, not_found_lots)
                            \o <<" ", "N", "/", "A">>)
            ELSE supplier_parts
    IN IF Len(parts) > 1 THEN join(<<" ", "|", " ">>, parts)
       ELSE parts[1]

\* the text of lines 155-156 without what precedes the lots
unregistered_lots_bare(lot_results_) ==
    join(<<" ", "-", " ">>,
         [k \in 1..Len(lot_results_) |-> lot_results_[k].cert_lot])
        \o <<" ", "N", "/", "A">>

\* lines 155-156: the text for a list without any found result
unregistered_lots(lot_results_) ==
    UNREGISTERED \o <<" ", "/", " ">>
        \o join(<<" ", "-", " ">>,
                [k \in 1..Len(lot_results_) |-> lot_results_[k].cert_lot])
        \o <<" ", "N", "/", "A">>

\* generate_annotation_text without the branch of lines 153-156: a list
\* without any found result gets the text of the empty list
generate_annotation_text_no_miss_branch(lot_results_, annotation_hint) ==
    IF Len(lot_results_) = 0 THEN UNREGISTERED
    ELSE IF \A k \in 1..Len(lot_results_) : ~lot_results_[k].found
    THEN UNREGISTERED
    ELSE LET grouped == group_results(lot_results_, 1, <<>>, <<>>)
             groups == grouped.supplier_groups
             supplier_parts ==
                 IF Len(groups) = 1
                 THEN <<only_group_part(groups[1], annotation_hint)>>
                 ELSE [g \in 1..Len(groups) |-> group_part(groups[g])]
         IN assemble(supplier_parts, grouped.not_found_lots)

generate_annotation_text(lot_results_, annotation_hint) ==
    IF Len(lot_results_) = 0 THEN UNREGISTERED
    ELSE IF \A k \in 1..Len(lot_results_) : ~lot_results_[k].found
    THEN unregistered_lots(lot_results_)
    ELSE LET grouped == group_results(lot_results_, 1, <<>>, <<>>)
             groups == grouped.supplier_groups
             supplier_parts ==
                 IF Len(groups) = 1
                 THEN <<only_group_part(groups[1], annotation_hint)>>
                 ELSE [g \in 1..Len(groups) |-> group_part(groups[g])]
         IN assemble(supplier_parts, grouped.not_found_lots)

\* ------------------------------------------------------------------------
\* ERPAgent.process_certificate
\* ------------------------------------------------------------------------
\* process_certificate without the test total_lots > 0 of line 229
process_certificate_all_of_none(extraction_result_, lot_results_) ==
    LET found_count == Cardinality({k \in 1..Len(lot_results_) :
                                       lot_results_[k].found})
        total_lots == Len(lot_results_)
        annotation_hint == get(extraction_result_, "annotation_hint", None)
    IN [lot_results |-> lot_results_,
        annotation_text |->
            generate_annotation_text(lot_results_, annotation_hint),
        all_found |-> found_count = total_lots,
        partial_found |-> found_count > 0,
        found_count |-> found_count,
        total_lots |-> total_lots]

\* lines 215-234, given the results of search_multiple_lots
process_certificate(extraction_result_, lot_results_) ==
    LET found_count == Cardinality({k \in 1..Len(lot_results_) :
                                       lot_results_[k].found})
        total_lots == Len(lot_results_)
        annotation_hint == get(extraction_result_, "annotation_hint", None)
    IN [lot_results |-> lot_results_,
        annotation_text |->
            generate_annotation_text(lot_results_, annotation_hint),
        all_found |-> found_count = total_lots /\ total_lots > 0,
        partial_found |-> found_count > 0,
        found_count |-> found_count,
        total_lots |-> total_lots]

\* ------------------------------------------------------------------------
\* Extraction results
\* ------------------------------------------------------------------------
\* JSONExtractLotAgent.process_json, lines 179-199: None without lot_data
process_json(lot_data) ==
    IF lot_data = None THEN None
    ELSE LET ld == lot_data[1]
         IN Some([lot_numbers |-> ld.lot_structured.expanded_lots,
                  lot_info |-> <<[num |-> ld.lot_raw,
                                  type |-> ld.lot_structured.type]>>,
                  lot_structure |-> ld.lot_structured.type])

\* ExtractLotAgent.process_certificate, lines 248-280
ocr_process_certificate(lot_data) ==
    IF lot_data = None
    THEN Some([lot_numbers |-> <<>>, lot_info |-> <<>>,
               lot_structure |-> "unknown"])
    ELSE LET structured == lot_data[1].lot_structured
             lot_numbers == structured.expanded_lots
         IN Some([lot_numbers |-> lot_numbers,
                  lot_info |-> [k \in 1..Len(lot_numbers) |->
                      [num |-> lot_numbers[k],
                       type |-> structured.type,
                       hint |-> get(structured, "annotation_hint", None)]],
                  lot_structure |-> structured.type])

\* ExtractLotAgent.extract_lot_from_text: the descriptor built for the digit
\* run lot_num captured by one of the four patterns
ocr_lot_data(lot_num) ==
    [lot_raw |-> lot_num,
     lot_structured |-> [type |-> "single", base_lot |-> Some(lot_num),
                         count |-> 1, expanded_lots |-> <<lot_num>>,
                         annotation_hint |-> None]]

\* JSONExtractLotAgent.extract_lot_from_text: the token and its descriptor
json_lot_data(tok) == [lot_raw |-> tok, lot_structured |-> parse_lot(tok)]

\* ------------------------------------------------------------------------
\* Inputs of the pipeline
\* ------------------------------------------------------------------------
\* the lot tokens found on certificates
PipelineTokens ==
    {str(139865) \o <<"/">> \o str(2),
     str(139912) \o <<"-">> \o str(139865),
     str(139912),
     <<"0">> \o str(139912),
     str(999999)}

\* the tokens the patterns (\d{5,7}) of ExtractLotAgent can capture
OcrLots == {t \in PipelineTokens : isdigit(t) /\ Len(t) \in 5..7}

LotData(a) ==
    IF a = "json" THEN {None} \cup {Some(json_lot_data(t)) : t \in PipelineTokens}
    ELSE {None} \cup {Some(ocr_lot_data(t)) : t \in OcrLots}

\* ------------------------------------------------------------------------
\* The pipeline: extraction, then ERPAgent.search_multiple_lots
\* ------------------------------------------------------------------------
NoReads == [s \in SheetNames |-> 0]
EmptyCache == [s \in {} |-> {}]

\* CertPrintOrchestrator.__init__, main.py lines 40-45
NoStats == [total_processed |-> 0, successful |-> 0, failed |-> 0]

\* nothing was saved, moved or sent to the printer yet
NoPrint ==
    [saved_to |-> "none", archive |-> "none", retry |-> None,
     events |-> <<>>, copy_requested |-> FALSE]

Init ==
    /\ raw = <<>>
    /\ lot_structured = None
    /\ agent \in {"json", "ocr"}
    /\ excel \in Workbooks
    /\ excel_cache = EmptyCache
    /\ reads = NoReads
    /\ extraction_result = None
    /\ lot_results = <<>>
    /\ searched = <<>>
    /\ lookup_log = {}
    /\ cert_no = 0
    /\ pc = "idle"
    /\ inbox \in 1..MaxCerts
    /\ extraction_results = <<>>
    /\ current = 0
    /\ cert_state = <<>>
    /\ erp_results = <<>>
    /\ print_result = None
    /\ print_no = 0
    /\ failures = {}
    /\ print_log = NoPrint
    /\ stats = NoStats
    /\ threads = <<>>

\* the extract agent handles the next certificate file and yields a result:
\* the body of the loop of JSONExtractLotAgent.process_all, or stage 1 of
\* CertPrintOrchestrator.process_single_certificate
Extract ==
    /\ pc = "idle"
    /\ cert_no < inbox
    /\ \E lot_data \in LotData(agent) :
          LET ext == IF agent = "json" THEN process_json(lot_data)
                     ELSE ocr_process_certificate(lot_data)
              \* main.py lines 93-98, JSONExtractLotAgent.process_all line 212
              failed == ext = None \/ ext[1].lot_numbers = <<>>
          IN /\ raw' = IF lot_data = None THEN <<>> ELSE lot_data[1].lot_raw
             /\ lot_structured' =
                    IF lot_data = None THEN None
                    ELSE Some(lot_data[1].lot_structured)
             /\ IF agent = "ocr"
                THEN /\ extraction_result' = ext
                     /\ current' = cert_no + 1
                     /\ cert_state' = Append(cert_state,
                            IF failed THEN "Failed" ELSE "Resolving")
                     /\ pc' = IF failed THEN "failed" ELSE "search"
                     \* main.py lines 131-133
                     /\ failures' = IF failed
                                    THEN failures \cup {[cert |-> cert_no + 1,
                                                         stage |-> "extract"]}
                                    ELSE failures
                     \* main.py line 133
                     /\ stats' = IF failed
                                 THEN [stats EXCEPT !.failed = @ + 1]
                                 ELSE stats
                     /\ UNCHANGED extraction_results
                ELSE /\ extraction_results' =
                            IF ext = None THEN extraction_results
                            ELSE Append(extraction_results,
                                        [cert |-> cert_no + 1,
                                         lot_data |-> lot_data,
                                         extraction |-> ext[1]])
                     /\ cert_state' = Append(cert_state,
                            IF ext = None THEN "Failed" ELSE "Parsing")
                     \* main_v2.py lines 62-66
                     /\ pc' = IF cert_no + 1 < inbox THEN "idle"
                              ELSE IF extraction_results' = <<>> THEN "done"
                              ELSE "erp"
                     \* process_json lines 179-181
                     /\ failures' = IF ext = None
                                    THEN failures \cup {[cert |-> cert_no + 1,
                                                         stage |-> "extract"]}
                                    ELSE failures
                     /\ UNCHANGED <<extraction_result, current, stats>>
    /\ cert_no' = cert_no + 1
    /\ lot_results' = <<>>
    /\ searched' = <<>>
    /\ UNCHANGED <<agent, excel, excel_cache, reads, lookup_log, inbox,
                   erp_results, print_result, print_no, print_log, threads>>

\* a loop over the extraction results from the last to the first
next_extraction_last_first(extraction_results_, erp_results_) ==
    extraction_results_[Len(extraction_results_) - Len(erp_results_)]

\* the element the list comprehension of ERPAgent.process_all (line 243)
\* takes next, given the results it has built
next_extraction(extraction_results_, erp_results_) ==
    extraction_results_[Len(erp_results_) + 1]

\* ERPAgent.process_all takes the next extraction result of the list
StartERP ==
    /\ pc = "erp"
    /\ LET e == next_extraction(extraction_results, erp_results)
       IN /\ extraction_result' = Some(e.extraction)
          /\ raw' = e.lot_data[1].lot_raw
          /\ lot_structured' = Some(e.lot_data[1].lot_structured)
          /\ current' = e.cert
          /\ cert_state' = [cert_state EXCEPT ![e.cert] = "Resolving"]
          \* search_multiple_lots lines 124-125
          /\ pc' = IF e.extraction.lot_numbers = <<>> THEN "searched"
                   ELSE "search"
    /\ lot_results' = <<>>
    /\ searched' = <<>>
    /\ UNCHANGED <<agent, excel, excel_cache, reads, lookup_log, cert_no,
                   inbox, extraction_results, erp_results, print_result,
                   print_no, failures, print_log, stats, threads>>

\* what one iteration of the loop of search_multiple_lots appends
lot_result(result, lot_info_list, i) ==
    IF i <= Len(lot_info_list)
    THEN LET info == lot_info_list[i]
         IN result @@ [type |-> get(info, "type", "single"),
                       annotation_hint |-> get(info, "annotation_hint", None),
                       count |-> get(info, "count", 1)]
    ELSE result

\* one iteration of the loop of search_multiple_lots
SearchLot ==
    /\ pc = "search"
    /\ LET ext == extraction_result[1]
           i == Len(lot_results) + 1
           r == search_lot(ext.lot_numbers[i], excel_cache)
       IN /\ lot_results' =
                 Append(lot_results, lot_result(r.result, ext.lot_info, i))
          /\ excel_cache' = r.cache
          /\ reads' = [s \in SheetNames |->
                 reads[s] + Cardinality({k \in 1..Len(r.trace) :
                     r.trace[k].sheet = s /\ r.trace[k].read})]
          /\ searched' = r.trace
          /\ lookup_log' = lookup_log \cup
                 {[sheet |-> r.trace[k].sheet, lot |-> ext.lot_numbers[i],
                   row |-> r.trace[k].row] :
                      k \in {j \in 1..Len(r.trace) : r.trace[j].loaded}}
          /\ pc' = IF i = Len(ext.lot_numbers) THEN "searched" ELSE "search"
    /\ UNCHANGED <<raw, lot_structured, agent, excel, extraction_result,
                   cert_no, inbox, extraction_results, current, cert_state,
                   erp_results, print_result, print_no, failures, print_log,
                   stats, threads>>

\* the rest of ERPAgent.process_certificate once the lots are searched
Compose ==
    /\ pc = "searched"
    \* file_name (line 225) is the number of the certificate
    /\ erp_results' =
           Append(erp_results,
                  [file_name |-> current]
                      @@ process_certificate(extraction_result[1],
                                             lot_results))
    /\ cert_state' = [cert_state EXCEPT ![current] = "Composed"]
    \* ERPAgent.process_all line 243, main_v2.py lines 70-74
    /\ pc' = IF agent = "ocr" THEN "composed"
             ELSE IF Len(erp_results') < Len(extraction_results) THEN "erp"
             ELSE "print"
    /\ UNCHANGED <<raw, lot_structured, agent, excel, excel_cache, reads,
                   extraction_result, lot_results, searched, lookup_log,
                   cert_no, inbox, extraction_results, current, print_result,
                   print_no, failures, print_log, stats, threads>>

\* AnnotatePrintAgent.__init__ line 69: printing.retry_attempts when the
\* configuration does not set it
DefaultRetryAttempts == 3

\* the loop of print_with_retry from iteration attempt on: outcomes[k] is
\* what the k-th call of print_pdf returns (True as soon as one of its three
\* print methods succeeds), events is what was done so far
RECURSIVE retry_loop(_, _, _, _)
retry_loop(attempt, retry_attempts, outcomes, events) ==
    IF attempt >= retry_attempts
    THEN [printed |-> FALSE, events |-> events]
    ELSE IF outcomes[attempt + 1]
    THEN [printed |-> TRUE, events |-> Append(events, "print_ok")]
    ELSE retry_loop(attempt + 1, retry_attempts, outcomes,
                    IF attempt < retry_attempts - 1
                    THEN events \o <<"print_failed", "sleep">>
                    ELSE Append(events, "print_failed"))

\* a loop that sleeps after every failed attempt
RECURSIVE retry_loop_sleep_always(_, _, _, _)
retry_loop_sleep_always(attempt, retry_attempts, outcomes, events) ==
    IF attempt >= retry_attempts
    THEN [printed |-> FALSE, events |-> events]
    ELSE IF outcomes[attempt + 1]
    THEN [printed |-> TRUE, events |-> Append(events, "print_ok")]
    ELSE retry_loop_sleep_always(attempt + 1, retry_attempts, outcomes,
                                 events \o <<"print_failed", "sleep">>)

print_with_retry_sleep_always(retry_attempts, outcomes) ==
    retry_loop_sleep_always(0, retry_attempts, outcomes, <<>>)

\* AnnotatePrintAgent.print_with_retry
print_with_retry(retry_attempts, outcomes) ==
    retry_loop(0, retry_attempts, outcomes, <<>>)

\* line 434 of AnnotatePrintAgent.process_certificate
is_not_found(erp_result) ==
    LET all_found == get(erp_result, "all_found", FALSE)
        results == get(erp_result, "lot_results", <<>>)
    IN \/ ~all_found
       \/ ~(\E k \in 1..Len(results) : results[k].found)

\* what AnnotatePrintAgent.process_certificate returns: pdf_found, annotated,
\* printer_available and print_ok are what the file system and the printer
\* answer
annotate_print(erp_result, pdf_found, annotated, printer_ok, print_ok) ==
    IF ~pdf_found
    THEN [success |-> FALSE, printed |-> FALSE, error |-> "File not found"]
    ELSE IF ~annotated
    THEN [success |-> FALSE, printed |-> FALSE,
          error |-> "Annotation failed"]
    ELSE IF is_not_found(erp_result)
    THEN [success |-> TRUE, printed |-> FALSE, not_found |-> TRUE]
    ELSE [success |-> TRUE,
          printed |-> IF printer_ok THEN print_ok ELSE FALSE,
          not_found |-> FALSE]

\* a print agent that sends every annotated certificate to the printer
print_effects_print_all(erp_result, env) ==
    LET retry == print_with_retry(env.retry_attempts, env.outcomes)
        printed == env.printer_available /\ retry.printed
    IN IF ~env.pdf_found \/ ~env.annotated THEN NoPrint
       ELSE [saved_to |-> IF is_not_found(erp_result) THEN "not_found_dir"
                          ELSE "annotated_dir",
             archive |-> IF env.archive_ok THEN "moved" ELSE "failed",
             retry |-> IF env.printer_available
                       THEN Some([retry_attempts |-> env.retry_attempts,
                                  returned |-> retry.printed])
                       ELSE None,
             events |-> IF env.printer_available THEN retry.events
                        ELSE <<>>,
             copy_requested |-> printed]

\* what AnnotatePrintAgent.process_certificate does to the files and the
\* printer: where build_annotated_pdf saved the annotated PDF (lines
\* 164-169), whether the original was moved to the archive (lines 465-478
\* and 502-515, an error of the move is logged only), the call of
\* print_with_retry (lines 491-492) and the copy to the printed folder
\* (lines 518-525)
print_effects(erp_result, env) ==
    LET retry == print_with_retry(env.retry_attempts, env.outcomes)
        printed == env.printer_available /\ retry.printed
    IN IF ~env.pdf_found \/ ~env.annotated THEN NoPrint
       ELSE IF is_not_found(erp_result)
       THEN [saved_to |-> "not_found_dir",
             archive |-> IF env.archive_ok THEN "moved" ELSE "failed",
             retry |-> None, events |-> <<>>, copy_requested |-> FALSE]
       ELSE [saved_to |-> "annotated_dir",
             archive |-> IF env.archive_ok THEN "moved" ELSE "failed",
             retry |-> IF env.printer_available
                       THEN Some([retry_attempts |-> env.retry_attempts,
                                  returned |-> retry.printed])
                       ELSE None,
             events |-> IF env.printer_available THEN retry.events
                        ELSE <<>>,
             copy_requested |-> printed]

\* the answers of the file system and the printer that process_certificate
\* can tell apart: each question is asked only when the ones before it were
\* answered with yes
PrintEnvs ==
    {env \in [pdf_found : BOOLEAN, annotated : BOOLEAN,
              printer_available : BOOLEAN, print_ok : BOOLEAN] :
        /\ ~env.pdf_found => ~env.annotated
        /\ ~env.annotated => ~env.printer_available
        /\ ~env.printer_available => ~env.print_ok}

\* the same answers with a move to the archive that works and the default
\* number of attempts, of which the first succeeds or none does
with_defaults(env) ==
    [pdf_found |-> env.pdf_found, annotated |-> env.annotated,
     printer_available |-> env.printer_available, archive_ok |-> TRUE,
     retry_attempts |-> DefaultRetryAttempts,
     outcomes |-> [k \in 1..DefaultRetryAttempts |-> env.print_ok]]

\* stage 3: main.py line 120 calls process_certificate(erp_result,
\* cert_path) of a method that takes erp_result only, and the TypeError is
\* caught at line 131; AnnotatePrintAgent.process_all of main_v2.py handles
\* the next ERP result
HandToPrint ==
    \/ /\ pc = "composed"
       /\ agent = "ocr"
       /\ cert_state' = [cert_state EXCEPT ![current] = "Failed"]
       /\ failures' = failures \cup {[cert |-> current, stage |-> "print"]}
       \* main.py line 133
       /\ stats' = [stats EXCEPT !.failed = @ + 1]
       /\ pc' = "failed"
       /\ UNCHANGED <<raw, lot_structured, agent, excel, excel_cache, reads,
                      extraction_result, lot_results, searched, lookup_log,
                      cert_no, inbox, extraction_results, current,
                      erp_results, print_result, print_no, print_log,
                      threads>>
    \/ /\ pc = "print"
       /\ agent = "json"
       /\ \E env \in PrintEnvs :
             LET erp_result == erp_results[print_no + 1]
                 result == annotate_print(erp_result, env.pdf_found,
                               env.annotated, env.printer_available,
                               env.print_ok)
             IN /\ print_result' = Some(result)
                /\ print_log' = print_effects(erp_result, with_defaults(env))
                \* AnnotatePrintAgent.process_all lines 557-567
                /\ failures' = IF result.success THEN failures
                               ELSE failures \cup
                                        {[cert |-> erp_result.file_name,
                                          stage |-> "print"]}
       /\ print_no' = print_no + 1
       /\ pc' = IF print_no' < Len(erp_results) THEN "print" ELSE "done"
       /\ UNCHANGED <<raw, lot_structured, agent, excel, excel_cache, reads,
                      extraction_result, lot_results, searched, lookup_log,
                      cert_no, inbox, extraction_results, current,
                      cert_state, erp_results, stats, threads>>

\* a loop that ends with the first certificate that failed
after_certificate_abort(cert_no_, inbox_) == "done"

\* where process_inbox is after process_single_certificate returned: the
\* exception was caught at line 131, the loop of line 159 goes on
after_certificate(cert_no_, inbox_) ==
    IF cert_no_ < inbox_ THEN "idle" ELSE "done"

\* the loop of process_inbox moves on to the next certificate file
NextCertificate ==
    /\ pc = "failed"
    /\ agent = "ocr"
    /\ pc' = after_certificate(cert_no, inbox)
    \* main.py line 161
    /\ stats' = [stats EXCEPT !.total_processed = @ + 1]
    /\ UNCHANGED <<raw, lot_structured, agent, excel, excel_cache, reads,
                   extraction_result, lot_results, searched, lookup_log,
                   cert_no, inbox, extraction_results, current, cert_state,
                   erp_results, print_result, print_no, failures, print_log,
                   threads>>

Next ==
    \/ Extract
    \/ StartERP
    \/ SearchLot
    \/ Compose
    \/ HandToPrint
    \/ NextCertificate

Spec == Init /\ [][Next]_vars


\* ------------------------------------------------------------------------
\* Inputs of the parser
\* ------------------------------------------------------------------------
\* all strings of exactly n characters over the alphabet A
RECURSIVE StringsOfLen(_, _)
StringsOfLen(A, n) ==
    IF n = 0 THEN {<<>>}
    ELSE {<<c>> \o s : c \in A, s \in StringsOfLen(A, n - 1)}

\* digit runs of every length up to MaxDigits over two digits
DigitRuns == UNION {StringsOfLen({"0", "1"}, n) : n \in 0..MaxDigits}

\* the unit counts str(0) .. str(MaxSuffix)
SmallNums == {str(n) : n \in 0..MaxSuffix}

\* short parts used around a third separator and next to letters
ShortParts == {<<>>, <<"1", "2">>, <<"3", "4">>, str(12345), str(139859)}

Separators == {<<"-">>, <<"/">>}

\* characters that are neither digits nor separators
Affixes == {<<>>, <<"A">>, <<" ">>, <<"#">>}

\* the tokens the documentation gives as examples
ExampleTokens ==
    {str(139912) \o <<"/">> \o str(139913),
     str(139865) \o <<"/">> \o str(2),
     str(139865) \o <<"/">> \o str(1),
     str(139865) \o <<"/">> \o str(10),
     str(139865) \o <<"/">> \o str(11),
     str(139865) \o <<"/">> \o str(250),
     str(123) \o <<"/">> \o str(2),
     str(139859) \o <<"-">> \o str(139860),
     str(139859) \o <<"-">>,
     <<"-">>,
     <<"L", "O", "T">> \o str(139912),
     <<" ", " ">>}

Tokens ==
    ExampleTokens
    \cup
    \* one part, possibly with a prefix and a suffix
    {pre \o a \o suf : pre \in Affixes, a \in DigitRuns, suf \in Affixes}
    \cup
    \* two parts
    {a \o sep \o b : a \in DigitRuns, sep \in Separators,
                     b \in DigitRuns \cup SmallNums}
    \cup
    \* three short parts
    {pre \o a \o s1 \o b \o s2 \o c :
        pre \in Affixes, a \in ShortParts, s1 \in Separators,
        b \in ShortParts, s2 \in Separators, c \in ShortParts}

\* ------------------------------------------------------------------------
\* Parser specification: parse_lot applied to every token
\* ------------------------------------------------------------------------
ParserInit ==
    /\ raw \in Tokens
    /\ lot_structured = None
    /\ agent = "json"
    /\ excel = [s \in SheetNames |-> SheetUnreadable]
    /\ excel_cache = EmptyCache
    /\ reads = NoReads
    /\ extraction_result = None
    /\ lot_results = <<>>
    /\ searched = <<>>
    /\ lookup_log = {}
    /\ cert_no = 0
    /\ pc = "parse"
    /\ inbox = 1
    /\ extraction_results = <<>>
    /\ current = 0
    /\ cert_state = <<>>
    /\ erp_results = <<>>
    /\ print_result = None
    /\ print_no = 0
    /\ failures = {}
    /\ print_log = NoPrint
    /\ stats = NoStats
    /\ threads = <<>>

ParseLot ==
    /\ lot_structured = None
    /\ pc = "parse"
    /\ lot_structured' = Some(parse_lot(raw))
    /\ UNCHANGED <<raw, erp_vars>>

ParserNext == ParseLot

ParserSpec == ParserInit /\ [][ParserNext]_vars

\* ------------------------------------------------------------------------
\* Inputs of the composer
\* ------------------------------------------------------------------------
\* a result of search_multiple_lots for a lot that was found
found_result(lot, supplier, internal_lot, sheet, type, hint, count) ==
    [cert_lot |-> lot, found |-> TRUE, supplier |-> Some(supplier),
     internal_lot |-> Some(internal_lot), sheet_found |-> Some(sheet),
     type |-> type, annotation_hint |-> hint, count |-> count]

\* a result of search_multiple_lots for a lot that was not found
missed_result(lot) ==
    not_found(lot) @@ [type |-> "single", annotation_hint |-> None,
                       count |-> 1]

ResultPool ==
    {found_result(str(139912), Acme, str(139912), "2025", "explicit_multi",
                  None, 2),
     found_result(str(139913), Acme, str(139913), "2025", "explicit_multi",
                  None, 2),
     found_result(str(139865), Delta, str(139865), "2025", "implicit_multi",
                  Some(<<"+", "1">>), 2),
     found_result(str(139912), <<" ">> \o Beta, str(2501) \o <<" ">>, "2024",
                  "single", None, 1),
     found_result(str(139866), Acme, str(2601), "2026", "single", None, 1),
     missed_result(str(999999)),
     missed_result(str(139912))}

RECURSIVE ResultLists(_)
ResultLists(n) ==
    IF n = 0 THEN {<<>>}
    ELSE LET shorter == ResultLists(n - 1)
         IN shorter \cup {Append(l, r) : l \in {x \in shorter : Len(x) = n - 1},
                                         r \in ResultPool}

\* the extraction result the lots came from: no extract agent writes the key
\* annotation_hint, a caller of the ERP agent may
ExtractionsOf(results) ==
    LET base == [lot_numbers |-> [k \in 1..Len(results) |->
                                     results[k].cert_lot],
                 lot_info |-> <<>>, lot_structure |-> "unknown"]
    IN {base, base @@ [annotation_hint |-> None],
        base @@ [annotation_hint |-> Some(<<"+", "1">>)]}

\* ------------------------------------------------------------------------
\* The composer on its own: ERPAgent.process_certificate after the lots of
\* one certificate were searched
\* ------------------------------------------------------------------------
ComposerInit ==
    /\ raw = <<>>
    /\ lot_structured = None
    /\ agent = "ocr"
    /\ excel = [s \in SheetNames |-> SheetUnreadable]
    /\ excel_cache = EmptyCache
    /\ reads = NoReads
    /\ lot_results \in ResultLists(MaxResults)
    /\ extraction_result \in {Some(e) : e \in ExtractionsOf(lot_results)}
    /\ searched = <<>>
    /\ lookup_log = {}
    /\ cert_no = 1
    /\ pc = "searched"
    /\ inbox = 1
    /\ extraction_results = <<>>
    /\ current = 1
    /\ cert_state = <<"Resolving">>
    /\ erp_results = <<>>
    /\ print_result = None
    /\ print_no = 0
    /\ failures = {}
    /\ print_log = NoPrint
    /\ stats = NoStats
    /\ threads = <<>>

ComposerNext == Compose

ComposerSpec == ComposerInit /\ [][ComposerNext]_vars

\* ------------------------------------------------------------------------
\* The print agent on its own: AnnotatePrintAgent.process_certificate on one
\* result of the ERP agent
\* ------------------------------------------------------------------------
\* the largest printing.retry_attempts of the configurations considered
MaxAttempts == 3
\* the largest number of lots of the certificates handed to the print agent
MaxPrintLots == 2

cert_lots_of(results) == [k \in 1..Len(results) |-> results[k].cert_lot]

\* the results of ERPAgent.process_certificate handed over
PrintInputs ==
    {[file_name |-> 1]
         @@ process_certificate([lot_numbers |-> cert_lots_of(results),
                                 lot_info |-> <<>>,
                                 lot_structure |-> "unknown"], results) :
        results \in ResultLists(MaxPrintLots)}

\* the answers of the file system and the printer, with the configured
\* number of attempts and what each call of print_pdf would return; a
\* question that is not asked has one answer
FullPrintEnvs ==
    {env \in [pdf_found : BOOLEAN, annotated : BOOLEAN,
              printer_available : BOOLEAN, archive_ok : BOOLEAN,
              retry_attempts : (-1)..MaxAttempts,
              outcomes : [1..MaxAttempts -> BOOLEAN]] :
        /\ ~env.pdf_found => ~env.annotated
        /\ ~env.annotated => ~env.archive_ok /\ ~env.printer_available
        /\ ~env.printer_available =>
               /\ env.retry_attempts = DefaultRetryAttempts
               /\ \A k \in 1..MaxAttempts : ~env.outcomes[k]}

PrintInit ==
    /\ raw = <<>>
    /\ lot_structured = None
    /\ agent = "json"
    /\ excel = [s \in SheetNames |-> SheetUnreadable]
    /\ excel_cache = EmptyCache
    /\ reads = NoReads
    /\ extraction_result = None
    /\ lot_results = <<>>
    /\ searched = <<>>
    /\ lookup_log = {}
    /\ cert_no = 1
    /\ pc = "print"
    /\ inbox = 1
    /\ extraction_results = <<>>
    /\ current = 1
    /\ cert_state = <<"Composed">>
    /\ erp_results \in {<<e>> : e \in PrintInputs}
    /\ print_result = None
    /\ print_no = 0
    /\ failures = {}
    /\ print_log = NoPrint
    /\ stats = NoStats
    /\ threads = <<>>

\* AnnotatePrintAgent.process_certificate on the next ERP result
PrintCertificate ==
    /\ pc = "print"
    /\ LET erp_result == erp_results[print_no + 1]
       IN \E env \in FullPrintEnvs :
             LET retry == print_with_retry(env.retry_attempts, env.outcomes)
                 result == annotate_print(erp_result, env.pdf_found,
                               env.annotated, env.printer_available,
                               retry.printed)
             IN /\ print_result' = Some(result)
                /\ print_log' = print_effects(erp_result, env)
                \* AnnotatePrintAgent.process_all lines 557-567
                /\ failures' = IF result.success THEN failures
                               ELSE failures \cup
                                        {[cert |-> erp_result.file_name,
                                          stage |-> "print"]}
    /\ print_no' = print_no + 1
    /\ pc' = IF print_no' < Len(erp_results) THEN "print" ELSE "done"
    /\ UNCHANGED <<raw, lot_structured, agent, excel, excel_cache, reads,
                   extraction_result, lot_results, searched, lookup_log,
                   cert_no, inbox, extraction_results, current, cert_state,
                   erp_results, stats, threads>>

PrintNext == PrintCertificate

PrintSpec == PrintInit /\ [][PrintNext]_vars

\* ------------------------------------------------------------------------
\* The loader on its own: ERPAgent.load_excel_sheet on a sheet of one row
\* ------------------------------------------------------------------------
\* the longest key stored as text
MaxKeyLen == 4

\* the characters of the keys stored as text
KeyAlphabet == {"0", "1", "5", ".", "A", " "}

\* the key cells: text, integers, and floats with an integral value
KeyCells ==
    {StrCell(t) : t \in UNION {StringsOfLen(KeyAlphabet, n) : n \in 0..MaxKeyLen}}
        \cup {IntCell(139912), IntCell(10), FloatCell(139912), FloatCell(10)}

LoaderInit ==
    /\ raw = <<>>
    /\ lot_structured = None
    /\ agent = "json"
    /\ \E cell \in KeyCells :
           excel = [s \in SheetNames |->
                       IF s = sheets[1]
                       THEN [readable |-> TRUE, columns |-> AllColumns,
                             rows |-> <<Row(cell, Acme, IntCell(2601))>>]
                       ELSE SheetUnreadable]
    /\ excel_cache = EmptyCache
    /\ reads = NoReads
    /\ extraction_result = None
    /\ lot_results = <<>>
    /\ searched = <<>>
    /\ lookup_log = {}
    /\ cert_no = 0
    /\ pc = "load"
    /\ inbox = 1
    /\ extraction_results = <<>>
    /\ current = 0
    /\ cert_state = <<>>
    /\ erp_results = <<>>
    /\ print_result = None
    /\ print_no = 0
    /\ failures = {}
    /\ print_log = NoPrint
    /\ stats = NoStats
    /\ threads = <<>>

\* one call of load_excel_sheet for the first configured sheet
LoadSheet ==
    /\ pc = "load"
    /\ LET ld == load_excel_sheet(excel_cache, sheets[1])
       IN /\ excel_cache' = ld.cache
          /\ reads' = [reads EXCEPT ![sheets[1]] =
                           IF ld.read THEN @ + 1 ELSE @]
    /\ pc' = "loaded"
    /\ UNCHANGED <<raw, lot_structured, agent, excel, extraction_result,
                   lot_results, searched, lookup_log, cert_no, inbox,
                   extraction_results, current, cert_state, erp_results,
                   print_result, print_no, failures, print_log, stats,
                   threads>>

LoaderNext == LoadSheet

LoaderSpec == LoaderInit /\ [][LoaderNext]_vars

\* ------------------------------------------------------------------------
\* ERPAgent.load_excel_sheet called by several threads of a host for the
\* same sheet of one ERPAgent: the statements of a call are steps of its
\* thread, and the steps of the threads interleave
\* ------------------------------------------------------------------------
\* the number of threads
MaxThreads == 2

Threads == 1..MaxThreads

\* the table that line 41 and line 57 build from the sheet as stored
read_table(sheet_name) ==
    LET sh == excel[sheet_name]
    IN [rows |-> [k \in 1..Len(sh.rows) |->
                     [sh.rows[k] EXCEPT !.NO = normalize_key(@)]]]

\* lines 50-53 and 63-65: the read raises or a required column is missing
load_fails(sheet_name) ==
    LET sh == excel[sheet_name]
    IN \/ ~sh.readable
       \/ \E col \in {column_names.cert_lot, column_names.internal_lot,
                       column_names.supplier} : col \notin sh.columns

\* threads.sheet is the sheet all threads ask for; threads.pos[t] is where
\* thread t is in its call; threads.got[t] is the table it holds, named by
\* the number of the read that built it (0: no table); threads.cached is
\* the table in the cache; threads.writes lists the tables written to the
\* cache
ConcurrentInit ==
    /\ raw = <<>>
    /\ lot_structured = None
    /\ agent = "json"
    /\ excel \in Workbooks
    /\ excel_cache = EmptyCache
    /\ reads = NoReads
    /\ extraction_result = None
    /\ lot_results = <<>>
    /\ searched = <<>>
    /\ lookup_log = {}
    /\ cert_no = 0
    /\ pc = "threads"
    /\ inbox = 1
    /\ extraction_results = <<>>
    /\ current = 0
    /\ cert_state = <<>>
    /\ erp_results = <<>>
    /\ print_result = None
    /\ print_no = 0
    /\ failures = {}
    /\ print_log = NoPrint
    /\ stats = NoStats
    /\ \E s \in SheetNames :
           threads = [sheet |-> s,
                      pos |-> [t \in Threads |-> "check"],
                      got |-> [t \in Threads |-> 0],
                      cached |-> 0,
                      writes |-> <<>>]

thread_vars == <<raw, lot_structured, agent, excel, extraction_result, lot_results, searched, lookup_log, cert_no, pc, inbox, extraction_results, current, cert_state, erp_results, print_result, print_no, failures, print_log, stats>>

\* lines 37-38: the cache is consulted
ThreadCheck(t) ==
    /\ pc = "threads"
    /\ threads.pos[t] = "check"
    /\ threads' =
           IF threads.sheet \in DOMAIN excel_cache
           THEN [threads EXCEPT !.pos[t] = "done",
                                !.got[t] = threads.cached]
           ELSE [threads EXCEPT !.pos[t] = "read"]
    /\ UNCHANGED <<thread_vars, excel_cache, reads>>

\* lines 40-57: pd.read_excel, the check of the columns, the normalization
ThreadRead(t) ==
    /\ pc = "threads"
    /\ threads.pos[t] = "read"
    /\ reads' = [reads EXCEPT ![threads.sheet] = @ + 1]
    /\ threads' =
           IF load_fails(threads.sheet)
           THEN [threads EXCEPT !.pos[t] = "done"]
           ELSE [threads EXCEPT !.pos[t] = "store",
                                !.got[t] = reads'[threads.sheet]]
    /\ UNCHANGED <<thread_vars, excel_cache>>

\* lines 59-61: the table is stored in the cache and returned
ThreadStore(t) ==
    /\ pc = "threads"
    /\ threads.pos[t] = "store"
    /\ excel_cache' =
           [s \in DOMAIN excel_cache \cup {threads.sheet} |->
               IF s = threads.sheet THEN read_table(s) ELSE excel_cache[s]]
    /\ threads' = [threads EXCEPT !.pos[t] = "done",
                                  !.cached = threads.got[t],
                                  !.writes = Append(@, threads.got[t])]
    /\ UNCHANGED <<thread_vars, reads>>

ConcurrentNext ==
    \E t \in Threads :
        \/ ThreadCheck(t)
        \/ ThreadRead(t)
        \/ ThreadStore(t)

ConcurrentSpec == ConcurrentInit /\ [][ConcurrentNext]_vars

\* ------------------------------------------------------------------------
\* Vocabulary of the properties
\* ------------------------------------------------------------------------
parsed == lot_structured # None
descriptor == lot_structured[1]

\* a purely numeric lot code of 5 to 6 digits
IsLotCode(s) == isdigit(s) /\ Len(s) \in 5..6

slash_parts == split(raw, "/")
dash_parts == split(raw, "-")

\* the decimal numerals of 0 .. 10, written out
Numeral == <<<<"0">>, <<"1">>, <<"2">>, <<"3">>, <<"4">>, <<"5">>, <<"6">>,
             <<"7">>, <<"8">>, <<"9">>, <<"1", "0">>>>
NumeralOf(n) == Numeral[n + 1]

\* the maximal runs of digits in s, as pairs <<first, last>>
DigitRunsIn(s) ==
    {r \in (1..Len(s)) \X (1..Len(s)) :
        /\ r[1] <= r[2]
        /\ \A k \in r[1]..r[2] : s[k] \in DigitChars
        /\ (r[1] > 1 => s[r[1] - 1] \notin DigitChars)
        /\ (r[2] < Len(s) => s[r[2] + 1] \notin DigitChars)}

LotRunsIn(s) == {r \in DigitRunsIn(s) : (r[2] - r[1] + 1) \in 5..6}

\* the documented multi-lot rules 1 to 3
DocExplicitSlash ==
    Len(slash_parts) = 2 /\ IsLotCode(slash_parts[1]) /\ IsLotCode(slash_parts[2])
DocImplicitSlash ==
    /\ Len(slash_parts) = 2
    /\ IsLotCode(slash_parts[1])
    /\ isdigit(slash_parts[2])
    /\ Len(slash_parts[2]) \in 1..2
    /\ int(slash_parts[2]) <= 10
DocExplicitDash ==
    /\ Contains(raw, "-")
    /\ \A k \in 1..Len(dash_parts) : IsLotCode(dash_parts[k])

LotAlphabet ==
    DigitChars \cup {"-", "/", "A", "L", "O", "T"}

\* ------------------------------------------------------------------------
\* Properties of parse_lot (ParserSpec)
\* ------------------------------------------------------------------------
\* C1: a token a/b with a and b both numeric of 5-6 digits is parsed as
\* ExplicitMulti with members <<a, b>> and count 2, never as ImplicitMulti.
C1_SlashPairIsExplicitMulti ==
    (parsed /\ DocExplicitSlash) =>
        /\ descriptor.type = "explicit_multi"
        /\ descriptor.expanded_lots = <<slash_parts[1], slash_parts[2]>>
        /\ descriptor.count = 2

\* C2: for a numeric a of 5-6 digits and n in 1..10 the token a/n is parsed
\* as ImplicitMulti with base a, members <<a>>, count n and hint "+" then
\* the numeral of n-1.
C2_ImplicitMulti ==
    \A n \in 1..10 :
        (parsed /\ Len(slash_parts) = 2 /\ IsLotCode(slash_parts[1])
                /\ slash_parts[2] = NumeralOf(n)) =>
            /\ descriptor.type = "implicit_multi"
            /\ descriptor.base_lot = Some(slash_parts[1])
            /\ descriptor.expanded_lots = <<slash_parts[1]>>
            /\ descriptor.count = n
            /\ descriptor.annotation_hint = Some(<<"+">> \o NumeralOf(n - 1))

C2_Witness ==
    /\ parsed
    /\ raw = str(139865) \o <<"/">> \o <<"1", "0">>
    /\ descriptor.count = 10
    /\ descriptor.annotation_hint = Some(<<"+", "9">>)

\* C3: a token is parsed as ImplicitMulti only if it is part0/part1 with
\* part0 numeric of 5-6 digits and part1 numeric of 1-2 digits and value
\* at most 10.
C3_ImplicitMultiOnlyIfBounded ==
    (parsed /\ descriptor.type = "implicit_multi") => DocImplicitSlash

\* C4: a token containing a dash is parsed as ExplicitMulti, with the
\* dash-split parts as members and their number as count, exactly when every
\* dash-split part is a non-empty numeric string of 5-6 digits.
C4_DashExplicitMultiIff ==
    (parsed /\ Contains(raw, "-")) =>
        ((/\ descriptor.type = "explicit_multi"
          /\ descriptor.expanded_lots = dash_parts
          /\ descriptor.count = Len(dash_parts))
         <=> DocExplicitDash)

\* C5: a token that matches none of the multi-lot rules and contains a
\* single run of 5-6 digits is parsed as Single with that run as its only
\* member and count 1.
C5_SingleIsTheDigitRun ==
    (/\ parsed
     /\ ~DocExplicitSlash /\ ~DocImplicitSlash /\ ~DocExplicitDash
     /\ Cardinality(LotRunsIn(raw)) = 1) =>
        \A r \in LotRunsIn(raw) :
            /\ descriptor.type = "single"
            /\ descriptor.expanded_lots = <<SubSeq(raw, r[1], r[2])>>
            /\ descriptor.count = 1

\* C6: an empty or whitespace-only token, or a token with characters outside
\* letters, digits, dash and slash and without a run of 5-6 digits, is a
\* parse failure: no Single descriptor is returned for it.
C6_BlankIsParseFailure ==
    (/\ parsed
     /\ \/ strip(raw) = <<>>
        \/ /\ \E k \in 1..Len(raw) : raw[k] \notin LotAlphabet
           /\ LotRunsIn(raw) = {}) =>
        descriptor.type \notin {"single", "explicit_multi", "implicit_multi"}

\* C7: a Single or ExplicitMulti descriptor has as many members as its
\* count; an ImplicitMulti descriptor has its base as its only member.
C7_MembersAgreeWithCount ==
    parsed =>
        /\ descriptor.type \in {"single", "explicit_multi"} =>
               Len(descriptor.expanded_lots) = descriptor.count
        /\ descriptor.type = "implicit_multi" =>
               /\ descriptor.base_lot # None
               /\ descriptor.expanded_lots = <<descriptor.base_lot[1]>>

C7_Witness ==
    /\ parsed
    /\ raw = str(139859) \o <<"-">>
    /\ descriptor.type = "explicit_multi"
    /\ descriptor.count = 2

\* ------------------------------------------------------------------------
\* Properties of the resolver (Spec)
\* ------------------------------------------------------------------------
\* the sheet loads: it is readable and has the three required columns
Loadable(s) == excel[s].readable /\ AllColumns \subseteq excel[s].columns

\* the normalized keys of the rows of sheet s whose key matches lot,
\* exactly or after leading zeros are stripped
ExactRows(s, lot) ==
    {k \in 1..Len(excel[s].rows) :
        normalize_key(excel[s].rows[k].NO) = strip(lot)}
ZeroRows(s, lot) ==
    {k \in 1..Len(excel[s].rows) :
        lstrip(normalize_key(excel[s].rows[k].NO), "0")
            = lstrip(strip(lot), "0")}

\* positions in sheets of the sheets that load and contain lot
Holding(lot) ==
    {k \in 1..Len(sheets) :
        /\ Loadable(sheets[k])
        /\ ExactRows(sheets[k], lot) \cup ZeroRows(sheets[k], lot) # {}}

lot_searched == Len(lot_results) >= 1 /\ pc \in {"search", "searched"}
last_result == lot_results[Len(lot_results)]

\* C8: search_lot returns the first sheet in priority order that contains
\* the lot, with supplier and internal lot of a matching row of that sheet,
\* visits no sheet after it; without any match the result is not found and
\* supplier, internal_lot and sheet_found are absent.
C8_FirstSheetWins ==
    lot_searched =>
        LET r == last_result
            hold == Holding(r.cert_lot)
        IN IF hold = {}
           THEN /\ r.found = FALSE
                /\ r.supplier = None
                /\ r.internal_lot = None
                /\ r.sheet_found = None
                /\ Len(searched) = Len(sheets)
           ELSE LET first == Min(hold)
                    s == sheets[first]
                IN /\ r.found = TRUE
                   /\ r.sheet_found = Some(s)
                   /\ \E k \in ExactRows(s, r.cert_lot)
                                 \cup ZeroRows(s, r.cert_lot) :
                          /\ r.supplier = Some(PyStr(excel[s].rows[k].Supplier))
                          /\ r.internal_lot = Some(PyStr(excel[s].rows[k].LotNum))
                   /\ Len(searched) = first
                   /\ \A k \in 1..first : searched[k].sheet = sheets[k]
                   /\ \A k \in (first + 1)..Len(sheets) :
                          \A j \in 1..Len(searched) :
                              searched[j].sheet # sheets[k]

C8_Witness ==
    /\ lot_searched
    /\ last_result.found
    /\ last_result.sheet_found = Some("2025")
    /\ Holding(last_result.cert_lot) = {2, 3}
    /\ Len(searched) = 2

C10_ExactThenLeadingZeros ==
    /\ \A e \in lookup_log :
           LET exact == ExactRows(e.sheet, e.lot)
               zero == ZeroRows(e.sheet, e.lot)
           IN /\ exact # {} => e.row = Some(Min(exact))
              /\ (exact = {} /\ zero # {}) => e.row = Some(Min(zero))
              /\ (exact = {} /\ zero = {}) => e.row = None
    /\ \A e1, e2 \in lookup_log :
           (/\ e1.sheet = e2.sheet
            /\ lstrip(strip(e1.lot), "0") = lstrip(strip(e2.lot), "0")
            /\ \A j, k \in ZeroRows(e1.sheet, e1.lot) :
                   normalize_key(excel[e1.sheet].rows[j].NO)
                       = normalize_key(excel[e1.sheet].rows[k].NO))
           => e1.row = e2.row

C10_Witness ==
    \E e1, e2 \in lookup_log :
        /\ e1.sheet = e2.sheet
        /\ e1.lot = str(139912)
        /\ e2.lot = <<"0">> \o str(139912)
        /\ ExactRows(e1.sheet, e2.lot) = {}
        /\ e1.row = Some(1)
        /\ e2.row = Some(1)

\* C11: a sheet that does not load (a required column is missing, or the
\* sheet cannot be read) is skipped and the search goes on with the sheets
\* after it; a lot held by a later sheet is found with that sheet as
\* sheet_found.
C11_FailedSheetIsSkipped ==
    lot_searched =>
        LET r == last_result
            hold == Holding(r.cert_lot)
        IN /\ \A j \in 1..Len(searched) :
                  ~Loadable(searched[j].sheet) =>
                      /\ searched[j].loaded = FALSE
                      /\ searched[j].row = None
                      /\ j < Len(searched) \/ j = Len(sheets)
           /\ \A k \in hold :
                  (/\ k = Min(hold)
                   /\ \E j \in 1..(k - 1) : ~Loadable(sheets[j]))
                  => /\ r.found = TRUE
                     /\ r.sheet_found = Some(sheets[k])

C11_Witness ==
    /\ lot_searched
    /\ excel["2026"] = SheetUnreadable
    /\ excel["2025"] = SheetNoSupplier
    /\ last_result.cert_lot = str(139912)
    /\ last_result.found
    /\ last_result.sheet_found = Some("2024")
    /\ Len(searched) = 3
    /\ searched[1].loaded = FALSE
    /\ searched[2].loaded = FALSE

\* ------------------------------------------------------------------------
\* Properties of the composer (ComposerSpec, Spec)
\* ------------------------------------------------------------------------
\* the certificates composed so far
Composed == 1..Len(erp_results)
results_of(k) == erp_results[k].lot_results
text_of(k) == erp_results[k].annotation_text

found_in(results) == {j \in 1..Len(results) : results[j].found}
missed_in(results) == {j \in 1..Len(results) : ~results[j].found}

\* the members of seq at the positions in S, in order
RECURSIVE pick(_, _, _)
pick(seq, S, k) ==
    IF k > Len(seq) THEN <<>>
    ELSE IF k \in S THEN <<seq[k]>> \o pick(seq, S, k + 1)
    ELSE pick(seq, S, k + 1)

cert_lots(results) == [j \in 1..Len(results) |-> results[j].cert_lot]

\* the cert_lot values joined by " - " and followed by " N/A"
na_segment(lots) == join(<<" ", "-", " ">>, lots) \o <<" ", "N", "/", "A">>

\* C12: an empty list of results composes to the fixed text for unregistered
\* lots, and a non-empty list without any found result composes to a
\* different text.
C12_EmptyIsUnregistered ==
    \A k \in Composed :
        /\ results_of(k) = <<>> => text_of(k) = UNREGISTERED
        /\ (results_of(k) # <<>> /\ found_in(results_of(k)) = {})
               => text_of(k) # UNREGISTERED

C12_Witness ==
    \E k \in Composed :
        /\ results_of(k) = <<>>
        /\ text_of(k) = UNREGISTERED
        /\ Len(UNREGISTERED) = 18

\* C13 as stated: a non-empty list without any found result composes to the
\* cert_lot values in input order joined by " - " and followed by " N/A",
\* and to nothing else.
C13_MissesOnly ==
    \A k \in Composed :
        (results_of(k) # <<>> /\ found_in(results_of(k)) = {})
            => text_of(k) = na_segment(cert_lots(results_of(k)))

\* C13 as the code has it: a non-empty list without any found result
\* composes to the text for unregistered lots, " / ", the cert_lot values in
\* input order joined by " - ", and " N/A".
C13_UnregisteredThenMisses ==
    \A k \in Composed :
        (results_of(k) # <<>> /\ found_in(results_of(k)) = {})
            => text_of(k) = UNREGISTERED \o <<" ", "/", " ">>
                                \o na_segment(cert_lots(results_of(k)))

C13_Witness ==
    \E k \in Composed :
        /\ cert_lots(results_of(k)) = <<str(999999), str(139912)>>
        /\ found_in(results_of(k)) = {}
        /\ text_of(k) = UNREGISTERED
               \o <<" ", "/", " ", "9", "9", "9", "9", "9", "9", " ", "-",
                    " ", "1", "3", "9", "9", "1", "2", " ", "N", "/", "A">>

\* text.split(" | ")
RECURSIVE segments_from(_, _, _)
segments_from(text, k, seg) ==
    IF k > Len(text) THEN <<seg>>
    ELSE IF /\ k + 2 <= Len(text)
            /\ SubSeq(text, k, k + 2) = <<" ", "|", " ">>
    THEN <<seg>> \o segments_from(text, k + 3, <<>>)
    ELSE segments_from(text, k + 1, Append(seg, text[k]))
segments(text) == segments_from(text, 1, <<>>)

supplier_of(r) == strip(r.supplier[1])
internal_lot_of(r) == strip(r.internal_lot[1])

\* the found results of the supplier group of result j, and the position of
\* that group among the groups in order of first appearance
group_of(results, j) ==
    {i \in found_in(results) :
        supplier_of(results[i]) = supplier_of(results[j])}
group_rank(results, j) ==
    Cardinality({supplier_of(results[i]) :
                    i \in {x \in found_in(results) : x <= j}})

\* the certificate whose lots are in lot_results has just been composed
just_composed ==
    /\ erp_results # <<>>
    /\ pc \notin {"search", "searched"}
    /\ lot_results # <<>>
    /\ results_of(Len(erp_results)) = lot_results
last_text == text_of(Len(erp_results))

\* C14: the segment of a supplier group of exactly one lot is "<supplier> -
\* Lot  <internal_lot>", followed by " <hint>" when the result of that lot
\* carries an annotation_hint, with one supplier group or with several; the
\* token "139865/2" found for supplier Delta composes to
\* "Delta - Lot  139865 +1".
C14_SingleLotSegmentWithHint ==
    /\ \A k \in Composed :
           LET rs == results_of(k)
               segs == segments(text_of(k))
           IN \A j \in found_in(rs) :
                  group_of(rs, j) = {j} =>
                      segs[group_rank(rs, j)] =
                          supplier_of(rs[j])
                              \o <<" ", "-", " ", "L", "o", "t", " ", " ">>
                              \o internal_lot_of(rs[j])
                              \o (IF truthy(get(rs[j], "annotation_hint", None))
                                  THEN <<" ">> \o rs[j].annotation_hint[1]
                                  ELSE <<>>)
    /\ (/\ just_composed
        /\ raw = str(139865) \o <<"/", "2">>
        /\ lot_results[1].found
        /\ supplier_of(lot_results[1]) = Delta)
           => last_text = Delta \o <<" ", "-", " ", "L", "o", "t", " ", " ">>
                              \o str(139865) \o <<" ", "+", "1">>

\* C15: the segment of a supplier group of two or more lots is "<supplier> -
\* Lot <lot1>" followed by " - Lot  <lotk>" for each further lot in input
\* order; lots 139912 and 139913 of Acme compose to
\* "Acme - Lot 139912 - Lot  139913".
C15_MultiLotSegment ==
    \A k \in Composed :
        LET rs == results_of(k)
            segs == segments(text_of(k))
            lots == [j \in 1..Len(rs) |->
                        IF rs[j].found THEN internal_lot_of(rs[j]) ELSE <<>>]
            further(g) == pick(lots, g \ {Min(g)}, 1)
        IN \A j \in found_in(rs) :
               LET g == group_of(rs, j)
               IN (Cardinality(g) >= 2 /\ j = Min(g)) =>
                      /\ Len(further(g)) = Cardinality(g) - 1
                      /\ segs[group_rank(rs, j)] =
                             supplier_of(rs[j])
                                 \o <<" ", "-", " ", "L", "o", "t", " ">>
                                 \o lots[j]
                                 \o join(<<>>,
                                      [i \in 1..Len(further(g)) |->
                                          <<" ", "-", " ", "L", "o", "t",
                                            " ", " ">> \o further(g)[i]])

C15_Witness ==
    \E k \in Composed :
        /\ Len(results_of(k)) = 2
        /\ found_in(results_of(k)) = {1, 2}
        /\ text_of(k) = <<"A", "c", "m", "e", " ", "-", " ", "L", "o", "t",
                          " ", "1", "3", "9", "9", "1", "2", " ", "-", " ",
                          "L", "o", "t", " ", " ", "1", "3", "9", "9", "1",
                          "3">>

\* the suppliers of the found results, as the composer groups them
suppliers_in(results) ==
    {supplier_of(results[j]) : j \in found_in(results)}
segment_count(results) ==
    Cardinality(suppliers_in(results))
        + (IF missed_in(results) # {} THEN 1 ELSE 0)

\* C16 as stated: for every list of results, the number of segments of the
\* composed text separated by " | " is the number of distinct suppliers of
\* the found results, plus one when some result is not found.
C16_SegmentCount ==
    \A k \in Composed :
        Len(segments(text_of(k))) = segment_count(results_of(k))

\* C16 for the lists it holds for: for every non-empty list of results, the
\* number of segments of the composed text separated by " | " is the number
\* of distinct suppliers of the found results, plus one when some result is
\* not found.
C16_SegmentCountNonEmpty ==
    \A k \in Composed :
        results_of(k) # <<>> =>
            Len(segments(text_of(k))) = segment_count(results_of(k))

C16_Witness ==
    \E k \in Composed :
        /\ Len(results_of(k)) = 3
        /\ Cardinality(found_in(results_of(k))) = 2
        /\ Cardinality(suppliers_in(results_of(k))) = 2
        /\ Len(segments(text_of(k))) = 3

C18_SummaryCounts ==
    \A k \in Composed :
        LET e == erp_results[k]
        IN /\ e.found_count = Cardinality(found_in(e.lot_results))
           /\ e.total_lots = Len(e.lot_results)
           /\ e.all_found <=> (e.found_count = e.total_lots /\ e.total_lots > 0)
           /\ e.lot_results = <<>> => e.all_found = FALSE
           /\ e.all_found <=> (/\ e.lot_results # <<>>
                               /\ missed_in(e.lot_results) = {})

C18_Witness ==
    \E k \in Composed :
        /\ erp_results[k].lot_results = <<>>
        /\ erp_results[k].total_lots = 0
        /\ erp_results[k].found_count = 0
        /\ erp_results[k].all_found = FALSE

\* ------------------------------------------------------------------------
\* Properties of the batch (Spec)
\* ------------------------------------------------------------------------
state_of(c) == IF c <= Len(cert_state) THEN cert_state[c] ELSE "None"

\* the states a certificate may pass through in one step
LifecycleStep(c) ==
    \/ state_of(c)' = state_of(c)
    \/ /\ state_of(c) = "None"
       /\ state_of(c)' \in {"Parsing", "Resolving"}
       /\ lot_structured' # None
    \/ /\ state_of(c) = "None"
       /\ state_of(c)' = "Failed"
       /\ lot_structured' = None
    \/ /\ state_of(c) = "Parsing"
       /\ state_of(c)' = "Resolving"
    \/ /\ state_of(c) = "Resolving"
       /\ state_of(c)' = "Composed"

\* C19: a certificate goes from Parsing to Resolving to Composed, or from
\* Parsing to Failed; it becomes Failed only when the parser yields no
\* descriptor, and a certificate that is Resolving changes to Composed only,
\* however many of its lots are not found.
C19_Lifecycle ==
    [][\A c \in 1..(MaxCerts + 1) : LifecycleStep(c)]_vars

\* the certificate whose extraction failed, and those handed to the print
\* agent
extract_failed(c) == [cert |-> c, stage |-> "extract"] \in failures
handed_to_print(c) ==
    \E k \in Composed :
        /\ erp_results[k].file_name = c
        /\ Len(text_of(k)) > 0
        /\ IF agent = "json" THEN k <= print_no
           ELSE [cert |-> c, stage |-> "print"] \in failures

\* C20: the failure of a certificate is recorded against that certificate
\* and the batch goes on: when the batch is done every certificate of the
\* inbox was taken up, and each one either failed in extraction or was
\* resolved, composed and handed to the print agent.
C20_BatchContinues ==
    /\ \A f \in failures : f.cert \in 1..Len(cert_state)
    /\ \A c \in 1..Len(cert_state) :
           cert_state[c] = "Failed" => \E f \in failures : f.cert = c
    /\ pc = "done" =>
           /\ cert_no = inbox
           /\ Len(cert_state) = inbox
           /\ \A c \in 1..inbox : extract_failed(c) \/ handed_to_print(c)

C20_Witness ==
    /\ pc = "done"
    /\ inbox >= 2
    /\ extract_failed(1)
    /\ ~extract_failed(2)
    /\ handed_to_print(2)

\* ------------------------------------------------------------------------
\* C21: every certificate of the batch yields an annotation
\* ------------------------------------------------------------------------
\* the ERP results that carry certificate c
annotations_of(c) == {k \in Composed : erp_results[k].file_name = c}

\* C21: when the batch is done, every certificate that was submitted has an
\* ERP result with a non-empty annotation string in the output handed
\* downstream, whether or not its text could be parsed and whether or not
\* its lots were all resolved
C21_EveryCertificateAnnotated ==
    pc = "done" =>
        \A c \in 1..inbox :
            \E k \in annotations_of(c) : Len(text_of(k)) > 0

\* ------------------------------------------------------------------------
\* Properties of the print agent (PrintSpec)
\* ------------------------------------------------------------------------
\* the ERP result the print agent handled last and what it returned
handled == print_result # None
last_erp == erp_results[print_no]
last_print == print_result[1]

\* the positions of print_log.events at which print_pdf was called
attempts == {k \in 1..Len(print_log.events) :
                print_log.events[k] \in {"print_ok", "print_failed"}}

retried == handled /\ print_log.retry # None
retry_attempts_ == print_log.retry[1].retry_attempts
returned == print_log.retry[1].returned

\* C29: print_with_retry calls print_pdf at most retry_attempts times, no
\* more after the call that succeeded, returns true exactly when a call
\* succeeded, sleeps only after a failed call that is followed by another
\* call, and with retry_attempts <= 0 does nothing and returns false
C29_RetryLoop ==
    retried =>
        LET events == print_log.events
        IN /\ Cardinality(attempts)
                  <= (IF retry_attempts_ > 0 THEN retry_attempts_ ELSE 0)
           /\ \A k \in attempts :
                  events[k] = "print_ok" => k = Len(events)
           /\ returned <=> \E k \in attempts : events[k] = "print_ok"
           /\ \A k \in 1..Len(events) :
                  events[k] = "sleep" =>
                      /\ k - 1 \in attempts
                      /\ k + 1 \in attempts
           /\ retry_attempts_ <= 0 => events = <<>> /\ ~returned
           /\ last_print.printed = returned

\* the second of three attempts succeeded, after one sleep
C29_Witness ==
    /\ retried
    /\ retry_attempts_ = DefaultRetryAttempts
    /\ print_log.events = <<"print_failed", "sleep", "print_ok">>
    /\ returned

\* ------------------------------------------------------------------------
\* C23: stable grouping by supplier (ComposerSpec)
\* ------------------------------------------------------------------------
IsPrefix(p, s) == Len(p) <= Len(s) /\ SubSeq(s, 1, Len(p)) = p

\* the internal lots of the found results at the positions in g, in input
\* order
lots_of_group(results, g) ==
    pick([j \in 1..Len(results) |->
             IF results[j].found THEN internal_lot_of(results[j]) ELSE <<>>],
         g, 1)

\* C23: the segment of a supplier stands at the rank at which the supplier
\* is first seen among the found results, it names the supplier and then the
\* internal lots of all found results of that supplier in input order, and
\* results of one supplier are in one segment whatever their sheet_found
C23_StableGrouping ==
    \A k \in Composed :
        LET rs == results_of(k)
            segs == segments(text_of(k))
        IN \A j \in found_in(rs) :
               LET g == group_of(rs, j)
                   seg == segs[group_rank(rs, Min(g))]
                   head == supplier_of(rs[j])
                               \o <<" ", "-", " ", "L", "o", "t", " ">>
                   listed == join(<<" ", "-", " ", "L", "o", "t", " ", " ">>,
                                  lots_of_group(rs, g))
               IN /\ group_rank(rs, Min(g)) <= Len(segs)
                  /\ \/ IsPrefix(head \o listed, seg)
                     \/ IsPrefix(head \o <<" ">> \o listed, seg)
                  /\ \A i \in found_in(rs) \ g :
                         group_rank(rs, Min(group_of(rs, i)))
                             # group_rank(rs, Min(g))

\* a supplier found in two sheets, with another supplier in between, was
\* composed into two segments
C23_Witness ==
    \E k \in Composed :
        LET rs == results_of(k)
        IN /\ Len(rs) = 3
           /\ found_in(rs) = {1, 2, 3}
           /\ supplier_of(rs[1]) = supplier_of(rs[3])
           /\ supplier_of(rs[1]) # supplier_of(rs[2])
           /\ rs[1].sheet_found # rs[3].sheet_found
           /\ Len(segments(text_of(k))) = 2

\* ------------------------------------------------------------------------
\* C24: normalization of the key column (LoaderSpec)
\* ------------------------------------------------------------------------
\* s without a ".0" at its end
without_trailing_dot0(s) ==
    IF Len(s) >= 2 /\ SubSeq(s, Len(s) - 1, Len(s)) = <<".", "0">>
    THEN SubSeq(s, 1, Len(s) - 2)
    ELSE s

\* C24: the key of a loaded row is the text of the stored cell, trimmed and
\* with a ".0" at its end removed; a ".0" elsewhere in the key stays
C24_OnlyTrailingDotZero ==
    \A s \in DOMAIN excel_cache :
        \A k \in 1..Len(excel_cache[s].rows) :
            excel_cache[s].rows[k].NO
                = without_trailing_dot0(strip(PyStr(excel[s].rows[k].NO)))

\* ------------------------------------------------------------------------
\* C25, C26: failed loads and the cache over the lookups of a run (Spec)
\* ------------------------------------------------------------------------
\* a load of sheet s has failed: it was read and is not in the cache
load_failed(s) == reads[s] > 0 /\ s \notin DOMAIN excel_cache

\* C25: once the load of a sheet has failed, no later step reads the sheet
\* again, and no result has that sheet as sheet_found
C25_FailedSheetExcluded ==
    [][\A s \in SheetNames :
           load_failed(s) =>
               /\ reads'[s] = reads[s]
               /\ \A k \in 1..Len(lot_results') :
                      lot_results'[k].sheet_found # Some(s)]_vars

\* C26: a sheet in the cache was read once; a step neither reads it again
\* nor replaces nor removes its table
C26_CachedSheetReadOnce ==
    [][/\ \A s \in DOMAIN excel_cache :
              /\ s \in DOMAIN excel_cache'
              /\ excel_cache'[s] = excel_cache[s]
              /\ reads'[s] = reads[s]
       /\ \A s \in DOMAIN excel_cache' : reads'[s] = 1]_vars

\* two different lots were looked up in a sheet that was read once
C26_Witness ==
    \E e1, e2 \in lookup_log :
        /\ e1.sheet = e2.sheet
        /\ e1.lot # e2.lot
        /\ e1.sheet \in DOMAIN excel_cache
        /\ reads[e1.sheet] = 1

\* ------------------------------------------------------------------------
\* C27: the first load of a sheet by concurrent threads (ConcurrentSpec)
\* ------------------------------------------------------------------------
all_returned ==
    /\ pc = "threads"
    /\ \A t \in Threads : threads.pos[t] = "done"

\* C27: when all threads have returned from the first load of a sheet that
\* loads, the sheet was read once, the cache was written once, and all
\* threads hold the table that is in the cache
C27_LoadedOnce ==
    (all_returned /\ threads.sheet \in DOMAIN excel_cache) =>
        /\ reads[threads.sheet] = 1
        /\ Len(threads.writes) = 1
        /\ \A t \in Threads : threads.got[t] = threads.cached

\* ------------------------------------------------------------------------
\* C28: one certificate at a time (Spec)
\* ------------------------------------------------------------------------
\* certificate c is taken up by the parser in this step
parsing_begins(c) == state_of(c) = "None" /\ state_of(c)' # "None"
resolving_begins(c) == state_of(c) # "Resolving" /\ state_of(c)' = "Resolving"
finished(c) == state_of(c) \in {"Composed", "Failed"}

\* C28: when parsing of a certificate begins, every certificate before it
\* has been parsed, resolved and composed completely (or has failed)
C28_OneAtATime ==
    [][\A c \in 1..MaxCerts :
           parsing_begins(c) => \A d \in 1..(c - 1) : finished(d)]_vars

\* C28 as the code has it: at most one certificate is being resolved at any
\* time and each is resolved and composed completely before resolution of
\* the next begins, in the order of parsing; in main.py parsing of a
\* certificate begins when every certificate before it is finished, in
\* main_v2.py every certificate of the batch is parsed before the first is
\* resolved
C28_OneAtATimePerStage ==
    [][/\ \A c \in 1..MaxCerts :
              /\ resolving_begins(c) => \A d \in 1..(c - 1) : finished(d)
              /\ parsing_begins(c) =>
                     IF agent = "ocr"
                     THEN \A d \in 1..(c - 1) : finished(d)
                     ELSE \A d \in 1..(c - 1) :
                              state_of(d) \in {"Parsing", "Failed"}
       /\ Cardinality({c \in 1..MaxCerts :
                          state_of(c)' = "Resolving"}) <= 1]_vars

\* in main_v2.py the second certificate is being resolved after the first
\* was composed, both having been parsed before
C28_Witness ==
    /\ agent = "json"
    /\ state_of(1) = "Composed"
    /\ state_of(2) = "Resolving"

\* ------------------------------------------------------------------------
\* C30: the statistics of main.py (Spec)
\* ------------------------------------------------------------------------
\* process_single_certificate returned False for certificate c
returned_false(c) == \E f \in failures : f.cert = c

\* C30: after a pass of main.py over the inbox, process_single_certificate
\* returned True for every certificate whose extraction yielded a lot,
\* successful counts these certificates, failed counts the certificates
\* whose extraction yielded nothing, and successful + failed is
\* total_processed
C30_MainStats ==
    (agent = "ocr" /\ pc = "done") =>
        /\ \A c \in 1..inbox : ~extract_failed(c) => ~returned_false(c)
        /\ stats.successful
               = Cardinality({c \in 1..inbox : ~extract_failed(c)})
        /\ stats.failed = Cardinality({c \in 1..inbox : extract_failed(c)})
        /\ stats.successful + stats.failed = stats.total_processed

====
